---- MODULE Spec2Model ----
(***************************************************************************)
(* Agent-Environment Lab (agent-env-lab/src/App.jsx): the grid-world       *)
(* transition function stepEnvironment, the rollout evaluator              *)
(* evaluateAction and the anytime planner pickAction.                      *)
(*                                                                         *)
(* JavaScript objects are modelled with their identity.  An environment    *)
(* object is a record of scalars and of references; the mutable objects it *)
(* refers to (the obstacle Set, the agent, goal and adversary objects, the *)
(* seen Set, the recent Array) live in `store`, one slot per allocating    *)
(* environment: the reference "live" in the field seen of an environment   *)
(* is the Set that the live environment allocated.  Two environments alias *)
(* an object exactly when they hold the same reference.                    *)
(*                                                                         *)
(* Numbers: rewards and rollout scores are kept in hundredths (the step    *)
(* cost -0.05 is -5), probabilities in percent.  Math.random() < p is a    *)
(* nondeterministic choice that is FALSE for p <= 0 and TRUE for p >= 1.   *)
(* Keys "x,y" of the Sets are the pairs <<x, y>>.                          *)
(***************************************************************************)
EXTENDS Integers, Sequences, FiniteSets, TLC

VARIABLES
    cfg,        \* the configuration object (React state cfg)
    store,      \* the mutable objects, by field and allocating environment
    env,        \* the live environment object (React state env)
    twin,       \* a second environment run beside env, or NoEnv
    last,       \* history: the last operation and whether it met a terminal model
    log,        \* history: the actions requested of advance
    plan        \* the planner's position and locals (pickAction, App.step)

vars == <<cfg, store, env, twin, last, log, plan>>

\* ------------------------------------------------------------------ bounds

\* advance is applied while tick < MaxTick
MaxTick == 3
\* the planner specification lets advance run this far (isStuck needs 6 positions)
PlanTicks == 5
\* rollouts of evaluateAction run at most this many steps
MaxHorizon == 1
\* evaluate is called on the live environments up to this tick
EvalTicks == 2
\* rollouts one pickAction call may run before its deadline must pass
MaxIters == 5
\* length of the action script of the 5x5 scenario
ScenarioTicks == 8
\* isStuck is applied to every sequence of recent positions up to this length
MaxRecent == 7
\* unseenAroundFrom is applied with every observation radius up to this one
MaxRadius == 3

\* ------------------------------------------------------- program constants

LOOP_PENALTY == 10
LOOP_PENALTY_STEPS == 6
INFO_GAIN_WEIGHT == 2
NO_PROGRESS_TICKS == 18
STUCK_MIN_HISTORY == 6
\* env.recent keeps this many positions
RecentCap == 16
\* the obstacles move on ticks that are multiples of this
ObstaclePeriod == 3
\* r = -0.05 per step, +10 on the goal, -5 on a collision (hundredths)
StepCost == -5
GoalBonus == 1000
CollisionPenalty == -500
\* distance shaping 0.02 per cell and goal bonus 5 of a rollout (hundredths)
DistanceWeight == 2
RolloutGoalBonus == 500
\* obstacleCount = floor(width*height*0.12)
ObstaclePercent == 12
\* the epsilon of the tie-breaking override, percent
EpsilonPercent == 5
\* horizon = cfg.partialObs ? 14 : 10
HorizonPartial == 14
HorizonFull == 10
\* DEFAULTS.timeBudgetMs
DEFAULTS_timeBudgetMs == 25

\* ------------------------------------------------------------------- utils

Abs(v) == IF v < 0 THEN -v ELSE v

Max2(a, b) == IF a > b THEN a ELSE b

Min2(a, b) == IF a < b THEN a ELSE b

clamp(v, a, b) == Max2(a, Min2(b, v))

manhattan(a, b) == Abs(a.x - b.x) + Abs(a.y - b.y)

keyOf(p) == <<p.x, p.y>>

DIRS ==
    << [name |-> "UP", dx |-> 0, dy |-> -1],
       [name |-> "RIGHT", dx |-> 1, dy |-> 0],
       [name |-> "DOWN", dx |-> 0, dy |-> 1],
       [name |-> "LEFT", dx |-> -1, dy |-> 0] >>

DirSet == {DIRS[i] : i \in 1..4}

\* choice(arr): any element of a non-empty array; undefined (no element) of an empty one
choice(arr) == {arr[i] : i \in 1..Len(arr)}

\* variant: a draw that can fall below any p, p = 0 included
ChanceAny(p) == BOOLEAN

\* Math.random() < p, p in percent
Chance(p) == IF p <= 0 THEN {FALSE} ELSE IF p >= 100 THEN {TRUE} ELSE BOOLEAN

Range(s) == {s[i] : i \in 1..Len(s)}

Cells(w, h) == (0..(w - 1)) \X (0..(h - 1))

\* ------------------------------------------------------------------ objects

NoRef == "null"
NoEnv == [id |-> "none"]
Ids == {"live", "sim", "twin"}

\* the slots of an environment that holds no object
EmptyStore ==
    [obstacles |-> [i \in Ids |-> {}],
     agent |-> [i \in Ids |-> [x |-> 0, y |-> 0]],
     goal |-> [i \in Ids |-> [x |-> 0, y |-> 0]],
     adversary |-> [i \in Ids |-> [x |-> 0, y |-> 0]],
     seen |-> [i \in Ids |-> {}],
     recent |-> [i \in Ids |-> <<>>]]

\* the value of environment e in store st: every field dereferenced
Model(st, e) ==
    [tick |-> e.tick, width |-> e.width, height |-> e.height,
     obstacles |-> st.obstacles[e.obstacles],
     agent |-> st.agent[e.agent],
     goal |-> st.goal[e.goal],
     adversary |-> IF e.adversary = NoRef THEN <<>> ELSE <<st.adversary[e.adversary]>>,
     reward |-> e.reward, done |-> e.done,
     seen |-> st.seen[e.seen],
     recent |-> st.recent[e.recent],
     bestDist |-> e.bestDist, lastImprovedTick |-> e.lastImprovedTick]

\* the slots of environment id are collected (no reference to them is left)
Collect(st, id) ==
    [obstacles |-> [st.obstacles EXCEPT ![id] = {}],
     agent |-> [st.agent EXCEPT ![id] = [x |-> 0, y |-> 0]],
     goal |-> [st.goal EXCEPT ![id] = [x |-> 0, y |-> 0]],
     adversary |-> [st.adversary EXCEPT ![id] = [x |-> 0, y |-> 0]],
     seen |-> [st.seen EXCEPT ![id] = {}],
     recent |-> [st.recent EXCEPT ![id] = <<>>]]

\* ------------------------------------------------------------------ makeEnv

\* the environments makeEnv(cfg) can return, each with the store holding its objects
makeEnv(c) ==
    LET width == c.width
        height == c.height
        obstacleCount == (width * height * ObstaclePercent) \div 100
        agent == [x |-> 1, y |-> height - 2]
        goal == [x |-> width - 2, y |-> 1]
        adversary == [x |-> width - 2, y |-> height - 2]
        taken == {keyOf(agent), keyOf(goal)}
                    \cup (IF c.multiAgent THEN {keyOf(adversary)} ELSE {})
    IN  { [store |->
             [EmptyStore EXCEPT
                !.obstacles["live"] = obs \ taken,
                !.agent["live"] = agent,
                !.goal["live"] = goal,
                !.adversary["live"] = IF c.multiAgent THEN adversary ELSE [x |-> 0, y |-> 0],
                !.seen["live"] = {keyOf(agent)},
                !.recent["live"] = <<keyOf(agent)>>],
           e |->
             [id |-> "live", tick |-> 0, width |-> width, height |-> height,
              obstacles |-> "live", agent |-> "live", goal |-> "live",
              adversary |-> IF c.multiAgent THEN "live" ELSE NoRef,
              reward |-> 0, done |-> FALSE,
              seen |-> "live", recent |-> "live",
              bestDist |-> manhattan(agent, goal), lastImprovedTick |-> 0]]
          : obs \in {o \in SUBSET Cells(width, height) : Cardinality(o) = obstacleCount} }

\* ----------------------------------------------------------------- cloneEnv

\* variant: a shallow copy ({...env}), whose fields refer to the objects of e
cloneEnvShallow(st, e, id) == [store |-> st, e |-> [e EXCEPT !.id = id]]

\* cloneEnv(e) allocated as environment id: a machine [store, e] whose e is the copy
cloneEnv(st, e, id) ==
    [store |->
        [obstacles |-> [st.obstacles EXCEPT ![id] = st.obstacles[e.obstacles]],
         agent |-> [st.agent EXCEPT ![id] = st.agent[e.agent]],
         goal |-> [st.goal EXCEPT ![id] = st.goal[e.goal]],
         adversary |-> [st.adversary EXCEPT ![id] =
                          IF e.adversary = NoRef THEN @ ELSE st.adversary[e.adversary]],
         seen |-> [st.seen EXCEPT ![id] = st.seen[e.seen]],
         recent |-> [st.recent EXCEPT ![id] = st.recent[e.recent]]],
     e |->
        [id |-> id, tick |-> e.tick, width |-> e.width, height |-> e.height,
         obstacles |-> id, agent |-> id, goal |-> id,
         adversary |-> IF e.adversary = NoRef THEN NoRef ELSE id,
         reward |-> e.reward, done |-> e.done,
         seen |-> id, recent |-> id,
         bestDist |-> e.bestDist, lastImprovedTick |-> e.lastImprovedTick]]

\* variant: only the bounds are tested, the obstacle Set is not consulted
isBlockedOffGridOnly(st, e, x, y) == x < 0 \/ y < 0 \/ x >= e.width \/ y >= e.height

isBlocked(st, e, x, y) ==
    IF x < 0 \/ y < 0 \/ x >= e.width \/ y >= e.height
    THEN TRUE
    ELSE <<x, y>> \in st.obstacles[e.obstacles]

\* -------------------------------------------------------------- stepEnvironment

\* variant: the step slips whatever slipProb is
SlipActionsAny(c, action) == {a \in DirSet : a.name # action.name \/ a = action}

\* the directions the step may execute for a requested action (the stochastic slip)
SlipActions(c, action) ==
    {a \in DirSet :
        \E slip \in Chance(c.slipProb) :
            IF slip THEN a.name # action.name ELSE a = action}

\* the agent object moved one cell in direction a, unless the target is blocked
MoveAgent(st, e, a) ==
    LET agent == st.agent[e.agent]
        nx == agent.x + a.dx
        ny == agent.y + a.dy
    IN  IF ~isBlocked(st, e, nx, ny)
        THEN [st EXCEPT !.agent[e.agent] =
                [x |-> clamp(nx, 0, e.width - 1), y |-> clamp(ny, 0, e.height - 1)]]
        ELSE st

\* variant: the cells within r steps of position p
WindowDiamond(e, p, r) ==
    {k \in Cells(e.width, e.height) : Abs(k[1] - p.x) + Abs(k[2] - p.y) <= r}

\* the in-bounds cells of the square of radius r around position p
Window(e, p, r) ==
    {k \in Cells(e.width, e.height) : Abs(k[1] - p.x) <= r /\ Abs(k[2] - p.y) <= r}

\* variant: the seen Set is replaced by the window instead of being added to
RevealSeenReplacing(st, e, c) ==
    IF c.partialObs
    THEN {[st EXCEPT !.seen[e.seen] = Window(e, st.agent[e.agent], c.obsRadius)]}
    ELSE {[st EXCEPT !.seen[e.seen] = Cells(e.width, e.height)]}

\* variant: the window is revealed whether or not observability is partial
RevealSeenWindowOnly(st, e, c) ==
    {[st EXCEPT !.seen[e.seen] = @ \cup Window(e, st.agent[e.agent], c.obsRadius)]}

\* the stores the reveal of seen cells can leave: under partial observability each
\* cell of the window is added unless its sensor-noise draw suppresses it (the draws
\* of cells already seen change nothing and are not enumerated)
RevealSeen(st, e, c) ==
    LET seen == st.seen[e.seen]
    IN  IF c.partialObs
        THEN LET win == Window(e, st.agent[e.agent], c.obsRadius)
                 fresh == win \ seen
                 added == IF c.sensorNoise <= 0 THEN {fresh}
                          ELSE IF c.sensorNoise >= 100 THEN {{}}
                          ELSE SUBSET fresh
             IN  {[st EXCEPT !.seen[e.seen] = seen \cup k] : k \in added}
        ELSE IF Cardinality(seen) < e.width * e.height
             THEN {[st EXCEPT !.seen[e.seen] = seen \cup Cells(e.width, e.height)]}
             ELSE {st}

\* where obstacle o ends when it attempts direction d
DriftTarget(st, e, o, d) ==
    LET tx == clamp(o[1] + d.dx, 0, e.width - 1)
        ty == clamp(o[2] + d.dy, 0, e.height - 1)
        agent == st.agent[e.agent]
        goal == st.goal[e.goal]
    IN  IF ~isBlocked(st, e, tx, ty)
           /\ ~(agent.x = tx /\ agent.y = ty)
           /\ ~(goal.x = tx /\ goal.y = ty)
        THEN <<tx, ty>>
        ELSE o

\* the cells removed from the moved set: agent, goal and a present adversary
KeptFree(st, e) ==
    {keyOf(st.agent[e.agent]), keyOf(st.goal[e.goal])}
        \cup (IF e.adversary # NoRef THEN {keyOf(st.adversary[e.adversary])} ELSE {})

\* variant: the obstacles move on every tick
DriftTickAlways(c, e) == c.dynamicObstacles

\* if (cfg.dynamicObstacles && env.tick % 3 === 0)
DriftTick(c, e) == c.dynamicObstacles /\ e.tick % ObstaclePeriod = 0

\* the dynamic obstacles: the machines [store, e, drift] the drift can leave; drift
\* is the direction each obstacle drew.  env.obstacles = moved makes the field refer
\* to a new Set, allocated by e itself
DriftObstacles(st, e, c) ==
    IF DriftTick(c, e)
    THEN LET old == st.obstacles[e.obstacles]
         IN  { LET moved == {DriftTarget(st, e, o, DIRS[draw[o]]) : o \in old}
               IN  [store |-> [st EXCEPT !.obstacles[e.id] = moved \ KeptFree(st, e)],
                    e |-> [e EXCEPT !.obstacles = e.id],
                    drift |-> draw]
               : draw \in [old -> 1..4] }
    ELSE {[store |-> st, e |-> e, drift |-> <<>>]}

\* DIRS.map(clamped neighbour).filter(not blocked), in the order of DIRS
AdvCandidates(st, e) ==
    LET adv == st.adversary[e.adversary]
        cand(i) == [x |-> clamp(adv.x + DIRS[i].dx, 0, e.width - 1),
                    y |-> clamp(adv.y + DIRS[i].dy, 0, e.height - 1)]
    IN  SelectSeq([i \in 1..4 |-> cand(i)], LAMBDA p : ~isBlocked(st, e, p.x, p.y))

\* candidates.reduce: the first candidate of least Manhattan distance to the agent
ChaserMove(st, e) ==
    LET adv == st.adversary[e.adversary]
        agent == st.agent[e.agent]
        cands == AdvCandidates(st, e)
    IN  IF Len(cands) = 0 THEN {adv}
        ELSE {cands[i] : i \in {j \in 1..Len(cands) :
                 /\ \A k \in 1..Len(cands) :
                        manhattan(cands[j], agent) <= manhattan(cands[k], agent)
                 /\ \A k \in 1..(j - 1) :
                        manhattan(cands[k], agent) > manhattan(cands[j], agent)}}

\* choice(dirs) || the adversary's own cell
RandomMove(st, e) ==
    LET cands == AdvCandidates(st, e)
    IN  IF Len(cands) = 0 THEN {st.adversary[e.adversary]} ELSE choice(cands)

\* variant: the collision is tested on the cell the adversary leaves
MoveAdversaryPenaltyBefore(st, e, c) ==
    IF e.adversary = NoRef
    THEN {[store |-> st, advPenalty |-> 0]}
    ELSE LET moves == IF c.adversaryType = "chaser" THEN ChaserMove(st, e)
                      ELSE RandomMove(st, e)
         IN  {[store |-> [st EXCEPT !.adversary[e.adversary] = [x |-> mv.x, y |-> mv.y]],
               advPenalty |-> IF st.adversary[e.adversary] = st.agent[e.agent]
                              THEN CollisionPenalty ELSE 0] : mv \in moves}

\* the adversary's move: the machines [store, advPenalty] it can leave
MoveAdversary(st, e, c) ==
    IF e.adversary = NoRef
    THEN {[store |-> st, advPenalty |-> 0]}
    ELSE LET moves == IF c.adversaryType = "chaser" THEN ChaserMove(st, e)
                      ELSE RandomMove(st, e)
             agent == st.agent[e.agent]
         IN  {[store |-> [st EXCEPT !.adversary[e.adversary] = [x |-> mv.x, y |-> mv.y]],
               advPenalty |-> IF mv.x = agent.x /\ mv.y = agent.y
                              THEN CollisionPenalty ELSE 0] : mv \in moves}

\* variant: the oldest position is removed as soon as the Array is full
PushRecentEarly(recent, key) ==
    LET pushed == Append(recent, key)
    IN  IF Len(pushed) >= RecentCap THEN Tail(pushed) ELSE pushed

\* recent.push(key); if (recent.length > 16) recent.shift()
PushRecent(recent, key) ==
    LET pushed == Append(recent, key)
    IN  IF Len(pushed) > RecentCap THEN Tail(pushed) ELSE pushed

\* variant: the step that reaches the goal pays no step cost
StepRewardGoalFree(atGoal, advPenalty) ==
    (IF atGoal THEN GoalBonus ELSE StepCost) + advPenalty

\* variant: a distance equal to the best counts as an improvement
ImprovedOrEqual(dist, bestDist) == dist <= bestDist

\* variant: the goal ends the episode whether or not the mode is episodic
TerminalAtGoal(c, atGoal) == atGoal

\* variant: no episode ends
TerminalNever(c, atGoal) == FALSE

\* if (cfg.episodic && agent on goal) env.done = true
Terminal(c, atGoal) == c.episodic /\ atGoal

\* let r = -0.05; if (at the goal) r += 10; r += advPenalty
StepReward(atGoal, advPenalty) ==
    StepCost + (IF atGoal THEN GoalBonus ELSE 0) + advPenalty

\* if (dist < env.bestDist)
Improved(dist, bestDist) == dist < bestDist

\* rewards, tick, progress tracking, recent positions and termination
Account(st, e, c, advPenalty) ==
    LET agent == st.agent[e.agent]
        goal == st.goal[e.goal]
        atGoal == agent.x = goal.x /\ agent.y = goal.y
        r == StepReward(atGoal, advPenalty)
        tick == e.tick + 1
        dist == manhattan(agent, goal)
        improved == Improved(dist, e.bestDist)
    IN  [store |-> [st EXCEPT !.recent[e.recent] = PushRecent(@, keyOf(agent))],
         e |-> [e EXCEPT
                  !.reward = @ + r,
                  !.tick = tick,
                  !.bestDist = IF improved THEN dist ELSE @,
                  !.lastImprovedTick = IF improved THEN tick ELSE @,
                  !.done = IF Terminal(c, atGoal) THEN TRUE ELSE @]]

\* the body of stepEnvironment after its guard: slip, move, reveal, obstacles,
\* adversary, accounting.  The machines [store, e, exec, drift] it can leave; exec
\* names the direction executed, drift the obstacles' draws
Transition(st, e, c, action) ==
    UNION { UNION { UNION {
        { LET acc == Account(m4.store, m3.e, c, m4.advPenalty)
          IN  [store |-> acc.store, e |-> acc.e, exec |-> a.name, drift |-> m3.drift]
          : m4 \in MoveAdversary(m3.store, m3.e, c) }
        : m3 \in DriftObstacles(s2, e, c) }
        : s2 \in RevealSeen(MoveAgent(st, e, a), e, c) }
        : a \in SlipActions(c, action) }

\* variant: the transition is applied to a terminal environment too
stepEnvironmentUnguarded(st, e, c, action) == Transition(st, e, c, action)

\* stepEnvironment(env, cfg, action): if (env.done) return env, else the transition
stepEnvironment(st, e, c, action) ==
    IF e.done
    THEN {[store |-> st, e |-> e, exec |-> "none", drift |-> <<>>]}
    ELSE Transition(st, e, c, action)

\* ------------------------------------------------- stuck detection, info gain

\* variant: only the last entry and the one two before it are compared
isABABHalf(recent) ==
    IF Len(recent) < 4 THEN FALSE
    ELSE recent[Len(recent)] = recent[Len(recent) - 2]

isABAB(recent) ==
    IF Len(recent) < 4 THEN FALSE
    ELSE LET n == Len(recent)
         IN  recent[n] = recent[n - 2] /\ recent[n - 1] = recent[n - 3]

\* recent.slice(-6)
Tail6(recent) ==
    IF Len(recent) <= 6 THEN recent ELSE SubSeq(recent, Len(recent) - 5, Len(recent))

isStuck(st, e) ==
    LET recent == st.recent[e.recent]
    IN  IF Len(recent) < STUCK_MIN_HISTORY THEN FALSE
        ELSE LET noProgress == (e.tick - e.lastImprovedTick) >= NO_PROGRESS_TICKS
                 abab == isABAB(recent)
                 tinyVar == Cardinality(Range(Tail6(recent))) <= 2
             IN  noProgress \/ abab \/ tinyVar

\* variant: every cell of the window is counted, seen or not
unseenAroundFromAll(pos, st, e, c) ==
    Cardinality(Window(e, pos, c.obsRadius))

unseenAroundFrom(pos, st, e, c) ==
    Cardinality(Window(e, pos, c.obsRadius) \ st.seen[e.seen])

\* ------------------------------------------------------------ evaluateAction

\* one pass of the rollout loop over every machine [store, e, total] of S
RECURSIVE RolloutLoop(_, _, _, _, _, _, _)
RolloutLoop(S, t, horizon, c, action, startSeen, recentSet) ==
    IF t >= horizon THEN S
    ELSE RolloutLoop(
            UNION { IF m.e.done THEN {m}
                    ELSE UNION { { LET agent == n.store.agent[n.e.agent]
                                       goal == n.store.goal[n.e.goal]
                                       gain == Cardinality(n.store.seen[n.e.seen]) - startSeen
                                   IN  [store |-> n.store, e |-> n.e,
                                        total |-> m.total
                                           - manhattan(agent, goal) * DistanceWeight
                                           + gain * INFO_GAIN_WEIGHT
                                           - (IF t < LOOP_PENALTY_STEPS
                                                 /\ keyOf(agent) \in recentSet
                                              THEN LOOP_PENALTY ELSE 0)
                                           + (IF agent.x = goal.x /\ agent.y = goal.y
                                              THEN RolloutGoalBonus ELSE 0)]
                                   : n \in stepEnvironment(m.store, m.e, c, a) }
                                 : a \in (IF t = 0 THEN {action} ELSE DirSet) }
                    : m \in S },
            t + 1, horizon, c, action, startSeen, recentSet)

\* variant: the rollout steps the environment it is given, without cloning it
evaluateActionInPlace(st, e, c, action, horizon) ==
    RolloutLoop({[store |-> st, e |-> e, total |-> 0]},
                0, horizon, c, action,
                Cardinality(st.seen[e.seen]), Range(st.recent[e.recent]))

\* evaluateAction(env, cfg, action, horizon): the machines [store, e, total] a call
\* can leave, e the rollout's environment sim and total the value returned
evaluateAction(st, e, c, action, horizon) ==
    LET sim == cloneEnv(st, e, "sim")
        startSeen == Cardinality(sim.store.seen[sim.e.seen])
        recentSet == Range(sim.store.recent[sim.e.recent])
    IN  RolloutLoop({[store |-> sim.store, e |-> sim.e, total |-> 0]},
                    0, horizon, c, action, startSeen, recentSet)

\* what a call that worked on machine m leaves to its caller, whose environment is
\* e: the caller's object is m.e when the two are one object, and the rollout's own
\* objects are garbage
LeftStore(m, e) == IF m.e.id = e.id THEN m.store ELSE Collect(m.store, m.e.id)

LeftEnv(m, e) == IF m.e.id = e.id THEN m.e ELSE e

\* ------------------------------------------------------------------ history

Idle == [pc |-> "idle"]

Created == [op |-> "create", wasDone |-> FALSE]

\* ---------------------------------------------------------------- pickAction

\* bestInfo = -Infinity: below every count of unseen cells
NegInfinity == -1

\* the information-seeking fallback: the scan of DIRS from index i on
RECURSIVE ExploreScan(_, _, _, _, _, _)
ExploreScan(i, best, bestInfo, st, e, c) ==
    IF i > 4 THEN [best |-> best, bestInfo |-> bestInfo]
    ELSE LET d == DIRS[i]
             agent == st.agent[e.agent]
             nx == clamp(agent.x + d.dx, 0, e.width - 1)
             ny == clamp(agent.y + d.dy, 0, e.height - 1)
             info == unseenAroundFrom([x |-> nx, y |-> ny], st, e, c)
         IN  IF isBlocked(st, e, nx, ny)
             THEN ExploreScan(i + 1, best, bestInfo, st, e, c)
             ELSE IF info > bestInfo
                  THEN ExploreScan(i + 1, d, info, st, e, c)
                  ELSE ExploreScan(i + 1, best, bestInfo, st, e, c)

\* new Map(DIRS.map(d => [d.name, {s:0, n:0}])), keyed by the index in DIRS
NoScores == [i \in 1..4 |-> [s |-> 0, n |-> 0]]

\* mean(a) > mean(b), a direction without samples having mean -Infinity
MeanGreater(a, b) ==
    IF a.n = 0 THEN FALSE
    ELSE IF b.n = 0 THEN TRUE
    ELSE a.s * b.n > b.s * a.n

\* variant: a sampled mean equal to the best replaces it (the last maximal mean wins)
RECURSIVE BestScanLast(_, _, _)
BestScanLast(i, best, scores) ==
    IF i > 4 THEN best
    ELSE IF best = 0
         THEN BestScanLast(i + 1, IF scores[i].n > 0 THEN i ELSE 0, scores)
         ELSE BestScanLast(i + 1,
                           IF scores[i].n > 0 /\ ~MeanGreater(scores[best], scores[i])
                           THEN i ELSE best,
                           scores)

\* the scan for the best mean from index i on
RECURSIVE BestScan(_, _, _)
BestScan(i, best, scores) ==
    IF i > 4 THEN best
    ELSE IF best = 0
         THEN BestScan(i + 1, IF scores[i].n > 0 THEN i ELSE 0, scores)
         ELSE BestScan(i + 1, IF MeanGreater(scores[i], scores[best]) THEN i ELSE best,
                       scores)

\* [...DIRS].sort((a,b) => bM - aM): the indices by descending mean; the sort is
\* stable, and the comparator's NaN for two means -Infinity counts as equal
SortedDirs(scores) ==
    LET before(i, j) == MeanGreater(scores[i], scores[j])
                          \/ (~MeanGreater(scores[j], scores[i]) /\ i < j)
        rank(i) == Cardinality({j \in 1..4 : j # i /\ before(j, i)})
    IN  [k \in 1..4 |-> CHOOSE i \in 1..4 : rank(i) = k - 1]

\* the actions the selection can return: the best mean, or with the epsilon draw
\* any of sorted.slice(0, max(2, floor(4/2)))
SelectAction(scores) ==
    LET found == BestScan(1, 0, scores)
        best == IF found = 0 THEN 1 ELSE found
        sorted == SortedDirs(scores)
        top == SubSeq(sorted, 1, Max2(2, 4 \div 2))
    IN  UNION { IF eps
                THEN {[eps |-> TRUE, action |-> j] : j \in choice(top)}
                ELSE {[eps |-> FALSE, action |-> best]}
                : eps \in Chance(EpsilonPercent) }

\* the rollout horizon of pickAction, cut at the bound of the model
Horizon(c) == Min2(IF c.partialObs THEN HorizonPartial ELSE HorizonFull, MaxHorizon)

\* budgets pickAction is called with (App.step passes cfg.timeBudgetMs)
Budgets == {-1, 0, 1}

\* performance.now() read again: the time that passed since the last reading; the
\* deadline must pass once MaxIters rollouts ran
Passed(p) == IF p.iters >= MaxIters THEN {1} ELSE {0, 1}

\* variant: the loop is entered while the deadline is reached but not passed
WithinBudgetInclusive(elapsed, budget) == elapsed <= budget

\* now() - start < budgetMs
WithinBudget(elapsed, budget) == elapsed < budget

\* pickAction entered: start = now(), the fallback, or on to the rollouts
PickStart(b) ==
    /\ plan.pc = "idle"
    /\ ~env.done
    /\ LET scan == ExploreScan(1, DIRS[1], NegInfinity, store, env, cfg)
       IN  IF isStuck(store, env) /\ cfg.partialObs /\ scan.bestInfo > NegInfinity
           THEN plan' = [pc |-> "decided", budget |-> b, elapsed |-> 0,
                         scores |-> NoScores, iters |-> 0, di |-> 1,
                         action |-> scan.best.name, mode |-> "explore", eps |-> FALSE]
           ELSE plan' = [pc |-> "while", budget |-> b, elapsed |-> 0,
                         scores |-> NoScores, iters |-> 0, di |-> 1,
                         action |-> "none", mode |-> "mc", eps |-> FALSE]
    /\ last' = [op |-> "pick", wasDone |-> env.done]
    /\ UNCHANGED <<cfg, store, env, twin, log>>

\* while (now() - start < budgetMs)
WhileCheck ==
    /\ plan.pc = "while"
    /\ \E dt \in Passed(plan) :
          LET elapsed == plan.elapsed + dt
          IN  plan' = [plan EXCEPT !.elapsed = elapsed,
                                   !.pc = IF WithinBudget(elapsed, plan.budget)
                                          THEN "for" ELSE "select",
                                   !.di = 1]
    /\ UNCHANGED <<cfg, store, env, twin, last, log>>

\* variant: the pass leaves out the last direction
ForNextSkipLast(di) == IF di >= 3 THEN 1 ELSE di + 1

\* for (const d of DIRS): the index of the direction after DIRS[di], the first
\* again after the last
ForNext(di) == IF di = 4 THEN 1 ELSE di + 1

\* one turn of for (const d of DIRS): a rollout, the score, the deadline check
Rollout ==
    /\ plan.pc = "for"
    /\ \E m \in evaluateAction(store, env, cfg, DIRS[plan.di], Horizon(cfg)) :
       \E dt \in Passed([plan EXCEPT !.iters = @ + 1]) :
          LET elapsed == plan.elapsed + dt
              stop == ~WithinBudget(elapsed, plan.budget)
          IN  /\ plan' = [plan EXCEPT
                            !.scores[plan.di] = [s |-> @.s + m.total, n |-> @.n + 1],
                            !.iters = @ + 1,
                            !.elapsed = elapsed,
                            !.pc = IF stop \/ plan.di = 4 THEN "while" ELSE "for",
                            !.di = IF stop THEN 1 ELSE ForNext(plan.di)]
              /\ store' = LeftStore(m, env)
              /\ env' = LeftEnv(m, env)
    /\ UNCHANGED <<cfg, twin, last, log>>

\* the best mean and the epsilon override; pickAction returns
Select ==
    /\ plan.pc = "select"
    /\ \E r \in SelectAction(plan.scores) :
          plan' = [plan EXCEPT !.pc = "decided", !.action = DIRS[r.action].name,
                               !.eps = r.eps]
    /\ UNCHANGED <<cfg, store, env, twin, last, log>>

DirNamed(name) == CHOOSE d \in DirSet : d.name = name

\* App.step after pickAction: next = cloneEnv(env), stepEnvironment(next, cfg,
\* decision.action), setEnv(next); the old environment is garbage and the new one
\* is the live one
StepApply ==
    /\ plan.pc = "decided"
    /\ LET next == cloneEnv(store, env, "sim")
       IN  \E m \in stepEnvironment(next.store, next.e, cfg, DirNamed(plan.action)) :
              LET installed == cloneEnv(m.store, m.e, "live")
              IN  /\ store' = Collect(installed.store, "sim")
                  /\ env' = installed.e
    /\ plan' = Idle
    /\ last' = [op |-> "step", wasDone |-> env.done]
    /\ UNCHANGED <<cfg, twin, log>>

\* evaluate(model, firstAction, horizon, config) called on the live environment
Evaluate(a, h) ==
    /\ plan.pc = "idle"
    /\ \E m \in evaluateAction(store, env, cfg, a, h) :
          /\ store' = LeftStore(m, env)
          /\ env' = LeftEnv(m, env)
    /\ last' = [op |-> "evaluate", wasDone |-> env.done]
    /\ UNCHANGED <<cfg, twin, log, plan>>

\* ------------------------------------------------------------ configurations

\* DEFAULTS, with the sizes and the observation radius fitted to the explored grids
Defaults(w, h) ==
    [width |-> w, height |-> h, partialObs |-> TRUE, obsRadius |-> 1,
     slipProb |-> 0, dynamicObstacles |-> FALSE, episodic |-> TRUE,
     multiAgent |-> FALSE, adversaryType |-> "random", sensorNoise |-> 0]

\* sensor noise is explored on grids of at most this many cells: every subset of a
\* window may stay hidden
NoisyCells == 6

\* the explored settings of the control panel: each toggle and slider alone, the
\* adversaries with moving obstacles, and the "open environment stress test"
Configs(w, h) ==
    LET D == Defaults(w, h)
    IN  { D,
          [D EXCEPT !.partialObs = FALSE],
          [D EXCEPT !.partialObs = FALSE, !.episodic = FALSE],
          [D EXCEPT !.obsRadius = 2],
          [D EXCEPT !.slipProb = 20],
          [D EXCEPT !.episodic = FALSE],
          [D EXCEPT !.dynamicObstacles = TRUE],
          [D EXCEPT !.multiAgent = TRUE],
          [D EXCEPT !.multiAgent = TRUE, !.adversaryType = "chaser"],
          [D EXCEPT !.multiAgent = TRUE, !.dynamicObstacles = TRUE],
          [D EXCEPT !.multiAgent = TRUE, !.adversaryType = "chaser",
                    !.dynamicObstacles = TRUE, !.episodic = FALSE],
          [D EXCEPT !.multiAgent = TRUE, !.adversaryType = "chaser",
                    !.dynamicObstacles = TRUE, !.slipProb = 20] }
        \cup (IF w * h <= NoisyCells
              THEN { [D EXCEPT !.sensorNoise = 20],
                     [D EXCEPT !.sensorNoise = 20, !.slipProb = 20, !.episodic = FALSE,
                               !.multiAgent = TRUE] }
              ELSE {})

\* ------------------------------------------------------------------ actions

\* advance(model, action, config) on the live environment, in place
AdvanceTo(a, cap, newlog) ==
    /\ plan.pc = "idle"
    /\ env.done \/ env.tick < cap
    /\ \E m \in stepEnvironment(store, env, cfg, a) :
          /\ store' = m.store
          /\ env' = m.e
          /\ last' = [op |-> "advance", wasDone |-> env.done]
    /\ log' = newlog
    /\ UNCHANGED <<cfg, twin, plan>>

Advance(a) == AdvanceTo(a, MaxTick, <<>>)

\* ------------------------------------------------------------ specifications

Sizes == {<<2, 2>>, <<3, 3>>, <<4, 3>>}

InitWith(configs) ==
    /\ cfg \in configs
    /\ \E m \in makeEnv(cfg) : store = m.store /\ env = m.e
    /\ twin = NoEnv
    /\ last = Created
    /\ log = <<>>
    /\ plan = Idle

\* the transition engine: any actions on the environments makeEnv returns
Init == InitWith(UNION {Configs(s[1], s[2]) : s \in Sizes})

Next == \E a \in DirSet : Advance(a)

Spec == Init /\ [][Next]_vars

\* the planner: evaluate and App.step's pickAction on the environments that advance
\* reaches
PlanSizes == {<<2, 2>>, <<3, 3>>}

PlanConfigs(w, h) ==
    LET D == Defaults(w, h)
    IN  IF w * h <= NoisyCells
        THEN { D,
               [D EXCEPT !.episodic = FALSE],
               [D EXCEPT !.partialObs = FALSE],
               [D EXCEPT !.slipProb = 20],
               [D EXCEPT !.multiAgent = TRUE],
               [D EXCEPT !.sensorNoise = 20] }
        ELSE { D,
               [D EXCEPT !.multiAgent = TRUE, !.adversaryType = "chaser",
                         !.dynamicObstacles = TRUE] }

PlanInit == InitWith(UNION {PlanConfigs(s[1], s[2]) : s \in PlanSizes})

\* whether pickAction on the live environment returns from its fallback
FallbackTaken ==
    /\ isStuck(store, env)
    /\ cfg.partialObs
    /\ ExploreScan(1, DIRS[1], NegInfinity, store, env, cfg).bestInfo > NegInfinity

\* the rollout loop of pickAction is explored on the environments makeEnv returns,
\* where slip and sensor noise do not multiply the values a rollout can return
RolloutsExplored == env.tick = 0 /\ cfg.slipProb = 0 /\ cfg.sensorNoise = 0

PlanNext ==
    \/ \E a \in DirSet : AdvanceTo(a, PlanTicks, <<>>)
    \/ \E a \in DirSet : \E h \in 0..MaxHorizon : env.tick <= EvalTicks /\ Evaluate(a, h)
    \/ \E b \in Budgets :
          /\ env.tick <= PlanTicks
          /\ b > 0 => (RolloutsExplored \/ FallbackTaken)
          /\ PickStart(b)
    \/ WhileCheck
    \/ Rollout
    \/ Select
    \/ StepApply

SpecPlan == PlanInit /\ [][PlanNext]_vars

\* the 5x5 scenario: no obstacles, agent at (0,4), goal at (4,0), no slip, episodic,
\* no adversary; log keeps the actions requested
ScenarioConfigs ==
    LET D == Defaults(5, 5)
    IN  {D, [D EXCEPT !.partialObs = FALSE, !.dynamicObstacles = TRUE]}

ScenarioEnv ==
    LET agent == [x |-> 0, y |-> 4]
        goal == [x |-> 4, y |-> 0]
    IN  [store |->
            [EmptyStore EXCEPT
                !.agent["live"] = agent,
                !.goal["live"] = goal,
                !.seen["live"] = {keyOf(agent)},
                !.recent["live"] = <<keyOf(agent)>>],
         e |->
            [id |-> "live", tick |-> 0, width |-> 5, height |-> 5,
             obstacles |-> "live", agent |-> "live", goal |-> "live",
             adversary |-> NoRef, reward |-> 0, done |-> FALSE,
             seen |-> "live", recent |-> "live",
             bestDist |-> manhattan(agent, goal), lastImprovedTick |-> 0]]

ScenarioInit ==
    /\ cfg \in ScenarioConfigs
    /\ store = ScenarioEnv.store
    /\ env = ScenarioEnv.e
    /\ twin = NoEnv
    /\ last = Created
    /\ log = <<>>
    /\ plan = Idle

ScenarioNext ==
    \E a \in DirSet :
        Len(log) < ScenarioTicks /\ AdvanceTo(a, ScenarioTicks, Append(log, a.name))

SpecScenario == ScenarioInit /\ [][ScenarioNext]_vars

\* two runs: the live environment and a copy of it, each advanced with the same
\* action and with draws of its own
Deterministic(c) ==
    c.slipProb = 0 /\ c.sensorNoise = 0 /\ ~c.dynamicObstacles /\ ~c.multiAgent

TwinConfigs(w, h) ==
    {c \in Configs(w, h) : Deterministic(c)}
        \cup (IF w * h <= NoisyCells
              THEN {[Defaults(w, h) EXCEPT !.slipProb = 20],
                    [Defaults(w, h) EXCEPT !.sensorNoise = 20],
                    [Defaults(w, h) EXCEPT !.multiAgent = TRUE]}
              ELSE {[Defaults(w, h) EXCEPT !.dynamicObstacles = TRUE]})

TwinInit ==
    /\ cfg \in UNION {TwinConfigs(s[1], s[2]) : s \in Sizes}
    /\ \E m \in makeEnv(cfg) :
          LET copy == cloneEnv(m.store, m.e, "twin")
          IN  store = copy.store /\ env = m.e /\ twin = copy.e
    /\ last = Created
    /\ log = <<>>
    /\ plan = Idle

TwinAdvance(a) ==
    /\ env.tick < MaxTick /\ twin.tick < MaxTick
    /\ \E m \in stepEnvironment(store, env, cfg, a) :
       \E n \in stepEnvironment(m.store, twin, cfg, a) :
          /\ store' = n.store
          /\ env' = m.e
          /\ twin' = n.e
    /\ last' = [op |-> "advance", wasDone |-> env.done]
    /\ UNCHANGED <<cfg, log, plan>>

TwinNext == \E a \in DirSet : TwinAdvance(a)

SpecTwin == TwinInit /\ [][TwinNext]_vars

\* isStuck on its inputs: the recent positions are every sequence of at most
\* MaxRecent cells out of three, as they are while the Array grows (tick is then
\* its length less one), or the same behind older positions once the Array is
\* full; the best distance was reached at the start or on the last tick
StuckCells == {<<1, 1>>, <<2, 1>>, <<1, 2>>}

StuckRecents ==
    UNION {[1..n -> StuckCells] : n \in 1..MaxRecent}

\* a full Array that ends with the sequence r
Padded(r) == [k \in 1..(RecentCap - Len(r)) |-> <<0, 0>>] \o r

StuckEnv(recent, tick, improved) ==
    [store |->
        [EmptyStore EXCEPT
            !.agent["live"] = [x |-> recent[Len(recent)][1], y |-> recent[Len(recent)][2]],
            !.goal["live"] = [x |-> 3, y |-> 3],
            !.seen["live"] = Range(recent),
            !.recent["live"] = recent],
     e |->
        [id |-> "live", tick |-> tick, width |-> 4, height |-> 4,
         obstacles |-> "live", agent |-> "live", goal |-> "live",
         adversary |-> NoRef, reward |-> tick * StepCost, done |-> FALSE,
         seen |-> "live", recent |-> "live",
         bestDist |-> 1, lastImprovedTick |-> improved]]

StuckInit ==
    /\ cfg = Defaults(4, 4)
    /\ \E r \in StuckRecents :
       \E full \in BOOLEAN :
       \E tick \in (IF full
                    THEN {RecentCap - 1, NO_PROGRESS_TICKS - 1, NO_PROGRESS_TICKS,
                          NO_PROGRESS_TICKS + MaxRecent}
                    ELSE {Len(r) - 1}) :
       \E improved \in {0, tick} :
          LET m == StuckEnv(IF full THEN Padded(r) ELSE r, tick, improved)
          IN  store = m.store /\ env = m.e
    /\ twin = NoEnv
    /\ last = Created
    /\ log = <<>>
    /\ plan = Idle

\* isStuck(env) called on the live environment
IsStuckCall ==
    /\ last.op = "create"
    /\ last' = [op |-> "isStuck", wasDone |-> env.done, result |-> isStuck(store, env)]
    /\ UNCHANGED <<cfg, store, env, twin, log, plan>>

StuckNext == IsStuckCall

SpecStuck == StuckInit /\ [][StuckNext]_vars

\* unseenAroundFrom on its inputs: grids of three sizes, every observation
\* radius up to MaxRadius, every candidate cell of the grid, and as seen Set every
\* subset of the smallest grid and, on the others, the rectangles at the origin
\* (the empty one is the all-unseen grid) and what lies outside them
ScoreSizes == {<<3, 3>>, <<5, 5>>, <<7, 7>>}

ScoreSeens(w, h) ==
    IF w * h <= 9
    THEN SUBSET Cells(w, h)
    ELSE UNION { { {k \in Cells(w, h) : k[1] < a /\ k[2] < b},
                   {k \in Cells(w, h) : ~(k[1] < a /\ k[2] < b)} }
                 : <<a, b>> \in (0..w) \X (0..h) }

ScoreEnv(w, h, seen) ==
    [store |->
        [EmptyStore EXCEPT
            !.agent["live"] = [x |-> 1, y |-> h - 2],
            !.goal["live"] = [x |-> w - 2, y |-> 1],
            !.seen["live"] = seen,
            !.recent["live"] = << <<1, h - 2>> >>],
     e |->
        [id |-> "live", tick |-> 0, width |-> w, height |-> h,
         obstacles |-> "live", agent |-> "live", goal |-> "live",
         adversary |-> NoRef, reward |-> 0, done |-> FALSE,
         seen |-> "live", recent |-> "live",
         bestDist |-> manhattan([x |-> 1, y |-> h - 2], [x |-> w - 2, y |-> 1]),
         lastImprovedTick |-> 0]]

ScoreInit ==
    /\ \E size \in ScoreSizes :
       \E r \in 1..MaxRadius :
       \E seen \in ScoreSeens(size[1], size[2]) :
          LET m == ScoreEnv(size[1], size[2], seen)
          IN  /\ cfg = [Defaults(size[1], size[2]) EXCEPT !.obsRadius = r]
              /\ store = m.store
              /\ env = m.e
    /\ twin = NoEnv
    /\ last = Created
    /\ log = <<>>
    /\ plan = Idle

\* unseenAroundFrom(pos, env, cfg) called on the live environment
ScoreCall(pos) ==
    /\ last.op = "create"
    /\ last' = [op |-> "score", wasDone |-> env.done, pos |-> pos,
                result |-> unseenAroundFrom(pos, store, env, cfg)]
    /\ UNCHANGED <<cfg, store, env, twin, log, plan>>

ScoreNext ==
    \E k \in Cells(env.width, env.height) : ScoreCall([x |-> k[1], y |-> k[2]])

SpecScore == ScoreInit /\ [][ScoreNext]_vars

\* the play loop: App.step repeated.  Up to tick LiveTicks the environment is
\* advanced with any action, which covers whatever pickAction decides there; from
\* then on the loop is followed where pickAction decides by its fallback, which
\* draws nothing.  The loop reads tick only in tick - lastImprovedTick >=
\* NO_PROGRESS_TICKS and never reads reward, so the two counters are kept still once
\* that difference is past NO_PROGRESS_TICKS: the states of an endless run are
\* finitely many
\* the first tick at which env.recent holds the STUCK_MIN_HISTORY positions that
\* isStuck needs
LiveTicks == STUCK_MIN_HISTORY - 1

LiveConfigs(w, h) ==
    {Defaults(w, h), [Defaults(w, h) EXCEPT !.episodic = FALSE]}

LiveInit == InitWith(UNION {LiveConfigs(s[1], s[2]) : s \in PlanSizes})

\* environment e after a step from environment old, its counters kept still
Saturated(old, e) ==
    IF e.tick - e.lastImprovedTick > NO_PROGRESS_TICKS
    THEN [e EXCEPT !.tick = old.tick, !.reward = old.reward]
    ELSE e

\* App.step after pickAction, as StepApply
StepApplySaturated ==
    /\ plan.pc = "decided"
    /\ LET next == cloneEnv(store, env, "sim")
       IN  \E m \in stepEnvironment(next.store, next.e, cfg, DirNamed(plan.action)) :
              LET installed == cloneEnv(m.store, m.e, "live")
              IN  /\ store' = Collect(installed.store, "sim")
                  /\ env' = Saturated(env, installed.e)
    /\ plan' = Idle
    /\ last' = [op |-> "step", wasDone |-> env.done]
    /\ UNCHANGED <<cfg, twin, log>>

\* one turn of the play loop where the fallback decides
LiveStep ==
    \/ FallbackTaken /\ PickStart(DEFAULTS_timeBudgetMs)
    \/ StepApplySaturated

LiveNext ==
    \/ \E a \in DirSet :
          /\ last.op \in {"create", "advance"}
          /\ AdvanceTo(a, LiveTicks, <<>>)
    \/ LiveStep

\* requestAnimationFrame calls the loop again while playing
SpecLive == LiveInit /\ [][LiveNext]_vars /\ WF_vars(LiveStep)

\* the moving obstacles beside an adversary: the 4x4 grid, on which makeEnv puts
\* the adversary on a cell of its own, (2,2), and one obstacle
DriftConfigs ==
    LET D == Defaults(4, 4)
    IN  {[D EXCEPT !.multiAgent = TRUE, !.dynamicObstacles = TRUE],
         [D EXCEPT !.multiAgent = TRUE, !.dynamicObstacles = TRUE,
                   !.adversaryType = "chaser"]}

DriftInit == InitWith(DriftConfigs)

SpecDrift == DriftInit /\ [][Next]_vars

\* the agent's move: advance as in Spec, the requested action kept in last
AdvanceRequested(a) ==
    /\ plan.pc = "idle"
    /\ env.done \/ env.tick < MaxTick
    /\ \E m \in stepEnvironment(store, env, cfg, a) :
          /\ store' = m.store
          /\ env' = m.e
          /\ last' = [op |-> "advance", wasDone |-> env.done, action |-> a.name]
    /\ UNCHANGED <<cfg, twin, log, plan>>

MoveNext == \E a \in DirSet : AdvanceRequested(a)

SpecMove == Init /\ [][MoveNext]_vars

\* the recent positions past their cap: a 2x2 grid without end of episode, the
\* agent sent up or down its column until the Array has lost its two oldest entries
RecentTicks == RecentCap + 1

RecentMoves == {d \in DirSet : d.name \in {"UP", "DOWN"}}

RecentConfigs == {[Defaults(2, 2) EXCEPT !.episodic = FALSE, !.partialObs = FALSE]}

RecentInit == InitWith(RecentConfigs)

RecentNext == \E a \in RecentMoves : AdvanceTo(a, RecentTicks, <<>>)

SpecRecent == RecentInit /\ [][RecentNext]_vars

\* Play: the effect of App that runs when playing, env.done or cfg changes, and
\* whose loop calls the step of the render in which it ran.  Here env is the
\* environment of that render, the one loop and step close over, and twin is the
\* environment that setEnv has installed since, the React state (NoEnv while the
\* state is still env); log holds the actions of the loop steps run so far.
\* Play is pressed on the environment makeEnv returned; the planner has a budget
\* of one unit of its clock
MaxLoops == 2

PlayInit == InitWith(UNION {LiveConfigs(s[1], s[2]) : s \in PlanSizes})

\* loop calls step, which enters pickAction(env, cfg, cfg.timeBudgetMs)
PlayPick ==
    /\ Len(log) < MaxLoops
    /\ IF twin = NoEnv THEN TRUE ELSE twin.done = env.done
    /\ PickStart(1)

\* step after pickAction: next = cloneEnv(env), stepEnvironment(next, cfg,
\* decision.action), setEnv(next)
PlayInstall ==
    /\ plan.pc = "decided"
    /\ LET next == cloneEnv(store, env, "sim")
       IN  \E m \in stepEnvironment(next.store, next.e, cfg, DirNamed(plan.action)) :
              LET installed == cloneEnv(m.store, m.e, "twin")
              IN  /\ store' = Collect(installed.store, "sim")
                  /\ twin' = installed.e
    /\ plan' = Idle
    /\ log' = Append(log, plan.action)
    /\ last' = [op |-> "step", wasDone |-> env.done]
    /\ UNCHANGED <<cfg, env>>

\* the installed environment differs in done, a dependency of the effect: the
\* effect runs again and its loop closes over the installed environment
PlayEffect ==
    /\ plan.pc = "idle"
    /\ twin # NoEnv
    /\ twin.done # env.done
    /\ LET current == cloneEnv(store, twin, "live")
       IN  /\ store' = Collect(current.store, "twin")
           /\ env' = current.e
    /\ twin' = NoEnv
    /\ last' = [op |-> "effect", wasDone |-> env.done]
    /\ UNCHANGED <<cfg, log, plan>>

PlayNext ==
    \/ PlayPick
    \/ WhileCheck
    \/ Rollout
    \/ Select
    \/ PlayInstall
    \/ PlayEffect

SpecPlay == PlayInit /\ [][PlayNext]_vars

\* ------------------------------------------------------------------- claims

\* the live model, every field dereferenced
Live == Model(store, env)

\* the unit moves of the 5x5 scenario: RIGHT four times, then UP four times
Script == <<"RIGHT", "RIGHT", "RIGHT", "RIGHT", "UP", "UP", "UP", "UP">>

\* the cell the decided action of pickAction points at
DecidedTarget ==
    LET d == DirNamed(plan.action)
        agent == store.agent[env.agent]
    IN  [x |-> agent.x + d.dx, y |-> agent.y + d.dy]

\* C1: in every state reached from makeEnv by advance calls, whatever the actions
\* and the configuration, the agent, the goal and a present adversary lie inside
\* [0,width) x [0,height) and none of their cells is in the obstacle set.
C1_PositionsLegal ==
    \A p \in {Live.agent, Live.goal} \cup Range(Live.adversary) :
        /\ p.x \in 0..(Live.width - 1)
        /\ p.y \in 0..(Live.height - 1)
        /\ keyOf(p) \notin Live.obstacles

\* C1 happens: obstacles have drifted around an agent that may slip and a
\* chasing adversary, and an obstacle is left
C1_Witness ==
    /\ last.op = "advance"
    /\ env.tick > ObstaclePeriod - 1
    /\ cfg.dynamicObstacles /\ cfg.slipProb > 0
    /\ Live.adversary # <<>>
    /\ Live.obstacles # {}

\* C2: a call of evaluateAction on the live environment, from evaluate or from a
\* turn of pickAction's rollout loop, with any action and horizon, leaves the
\* environment object and every object it refers to unchanged: all fields of the
\* caller's model are as before.
C2_EvaluateLeavesModel ==
    [][(last'.op = "evaluate" \/ plan.pc = "for")
          => /\ Model(store', env') = Model(store, env)
             /\ env' = env
             /\ store' = store]_vars

\* C2 happens: evaluate has run on a model that advance had moved and that is not
\* terminal, so that its rollout stepped a copy
C2_Witness ==
    /\ last.op = "evaluate"
    /\ env.tick > 0
    /\ ~env.done

\* C3 as stated: after RIGHT x4, UP x4 on the 5x5 scenario the model is at tick 8,
\* terminal, with cumulative reward -0.05*7 + 10.
C3_RewardSevenSteps ==
    log = Script =>
        /\ env.tick = 8
        /\ env.done
        /\ env.reward = 7 * StepCost + GoalBonus

\* C3 amended: after RIGHT x4, UP x4 on the 5x5 scenario the agent is on the goal,
\* the model is at tick 8 and terminal, it was not terminal after any shorter prefix
\* of the script, and the cumulative reward is -0.05*8 + 10: each of the eight
\* steps, the last included, pays the step cost.
C3_RewardEightSteps ==
    /\ log = Script =>
          /\ Live.agent = Live.goal
          /\ env.tick = 8
          /\ env.done
          /\ env.reward = 8 * StepCost + GoalBonus
    /\ \A k \in 0..(Len(Script) - 1) :
          log = SubSeq(Script, 1, k) => ~env.done /\ env.tick = k

\* C3 happens: the whole script has been applied
C3_Witness ==
    /\ log = Script
    /\ last.op = "advance"
    /\ Live.agent = [x |-> 4, y |-> 0]

\* C4: advance applied to a terminal model changes no field of it, whatever the
\* action and the configuration; so done stays TRUE and tick, agent, adversary,
\* obstacles, seen, reward and recent never change again.
C4_TerminalFrozen ==
    [][env.done
          => /\ Model(store', env') = Model(store, env)
             /\ env'.done]_vars

\* C4 happens: advance has been applied to a model that was terminal
C4_Witness ==
    /\ last.op = "advance"
    /\ last.wasDone
    /\ env.done
    /\ env.tick > 0

\* C5: without slip, sensor noise, dynamic obstacles and adversary, two runs from
\* equal models that apply advance with the same actions are in equal models after
\* every step.
C5_Deterministic ==
    Deterministic(cfg) => Model(store, twin) = Model(store, env)

\* C5 happens: both runs of a deterministic configuration have advanced twice and
\* the agent has left its start cell
C5_Witness ==
    /\ Deterministic(cfg)
    /\ last.op = "advance"
    /\ env.tick > 1 /\ twin.tick > 1
    /\ Cardinality(Range(Live.recent)) > 1

\* C6: every advance call, under any sensor noise and with partial observability
\* on or off, leaves a seen Set that includes the one before the call.
C6_SeenGrows ==
    [][store.seen[env.seen] \subseteq store'.seen[env'.seen]]_vars

\* C6 happens: under sensor noise and partial observability an advance has added
\* to the seen Set, and a cell of the grid is still unseen
C6_Witness ==
    /\ last.op = "advance"
    /\ cfg.partialObs /\ cfg.sensorNoise > 0
    /\ Cardinality(Live.seen) > 1
    /\ Live.seen # Cells(Live.width, Live.height)

\* C7: across advance calls bestDist never increases and lastImprovedTick never
\* decreases; both change only on a step after which the agent's Manhattan distance
\* to the goal is strictly less than the previous best, and then bestDist is that
\* distance and lastImprovedTick is the incremented tick.
C7_BestDistance ==
    [][LET dist == manhattan(store'.agent[env'.agent], store'.goal[env'.goal])
       IN  /\ env'.bestDist <= env.bestDist
           /\ env'.lastImprovedTick >= env.lastImprovedTick
           /\ IF env'.tick # env.tick /\ dist < env.bestDist
              THEN /\ env'.bestDist = dist
                   /\ env'.lastImprovedTick = env.tick + 1
                   /\ env'.tick = env.tick + 1
              ELSE /\ env'.bestDist = env.bestDist
                   /\ env'.lastImprovedTick = env.lastImprovedTick]_vars

\* C7 happens: the best distance improved on some tick after the first and a later
\* advance did not improve it
C7_Witness ==
    /\ last.op = "advance"
    /\ env.lastImprovedTick > 1
    /\ env.tick > env.lastImprovedTick
    /\ env.bestDist < manhattan(Live.agent, Live.goal)

\* C8: with partial observability off, after the first advance on a fresh model the
\* seen Set is the set of all width*height cells, and it is that same set after the
\* advance calls that follow.
C8_FullReveal ==
    (~cfg.partialObs /\ env.tick > 0) => Live.seen = Cells(Live.width, Live.height)

\* C8 happens: two consecutive advance calls have run with partial observability
\* off on a grid larger than the observation window
C8_Witness ==
    /\ ~cfg.partialObs
    /\ last.op = "advance"
    /\ env.tick = 2
    /\ Live.width > 2 * cfg.obsRadius + 1
    /\ Live.seen = Cells(Live.width, Live.height)

\* C9: when pickAction returns from its fallback (isStuck and partial
\* observability), with mode "explore" and zero iterations, the returned action
\* points at a cell that is inside the grid and not an obstacle.
C9_ExploreTargetLegal ==
    (plan.pc = "decided" /\ plan.mode = "explore")
        => /\ plan.iters = 0
           /\ ~isBlocked(store, env, DecidedTarget.x, DecidedTarget.y)

\* C10 as stated: pickAction called with a budget that is zero or negative, the
\* fallback not taken, runs no rollout and returns UP.
C10_ZeroBudgetReturnsUp ==
    (plan.pc = "decided" /\ plan.mode = "mc" /\ plan.budget <= 0)
        => /\ plan.iters = 0
           /\ plan.action = DIRS[1].name

\* C10 amended: pickAction called with a budget that is zero or negative, the
\* fallback not taken, runs no rollout and no direction has a sample; it returns UP
\* unless the epsilon draw overrides the selection, and then it returns one of the
\* first two directions, UP or RIGHT.
C10_ZeroBudgetDefault ==
    (plan.pc = "decided" /\ plan.mode = "mc" /\ plan.budget <= 0)
        => /\ plan.iters = 0
           /\ \A i \in 1..4 : plan.scores[i].n = 0
           /\ IF plan.eps
              THEN plan.action \in {DIRS[1].name, DIRS[2].name}
              ELSE plan.action = DIRS[1].name

\* C10 happens: a call with a negative budget has returned through the epsilon
\* override, and one with budget zero has the same outcomes
C10_Witness ==
    /\ plan.pc = "decided"
    /\ plan.mode = "mc"
    /\ plan.budget < 0
    /\ plan.eps
    /\ plan.action = DIRS[2].name

\* the index in DIRS of the decided action
DecidedIndex == CHOOSE i \in 1..4 : DIRS[i].name = plan.action

\* direction j has a mean above that of direction i, the mean of a direction
\* without samples being minus infinity
Outranks(j, i) ==
    /\ plan.scores[j].n > 0
    /\ \/ plan.scores[i].n = 0
       \/ plan.scores[j].s * plan.scores[i].n > plan.scores[i].s * plan.scores[j].n

\* C11: in Monte-Carlo mode, wherever the budget expired, a direction that has no
\* rollout sample is not the returned action when some direction has a sample.
C11_UnsampledNeverReturned ==
    (plan.pc = "decided" /\ plan.mode = "mc" /\ \E i \in 1..4 : plan.scores[i].n > 0)
        => plan.scores[DecidedIndex].n > 0

\* C12: in Monte-Carlo mode the returned action is the first direction of DIRS
\* whose mean is maximal, unless the epsilon override fired, and then it is one of
\* the two directions of highest mean (at most one direction has a mean above it).
C12_BestMeanOrTopTwo ==
    (plan.pc = "decided" /\ plan.mode = "mc")
        => IF plan.eps
           THEN Cardinality({j \in 1..4 : Outranks(j, DecidedIndex)}) <= 1
           ELSE /\ \A j \in 1..4 : ~Outranks(j, DecidedIndex)
                /\ \A j \in 1..(DecidedIndex - 1) : Outranks(DecidedIndex, j)

\* C12 happens: every direction has samples, the means differ, and the override
\* fired and returned a direction of second highest mean
C12_Witness ==
    /\ plan.pc = "decided"
    /\ plan.mode = "mc"
    /\ plan.eps
    /\ \A i \in 1..4 : plan.scores[i].n > 0
    /\ Cardinality({j \in 1..4 : Outranks(j, DecidedIndex)}) = 1

\* the recent positions of the A-B-A-B example
Pacing == << <<1, 1>>, <<2, 1>>, <<1, 1>>, <<2, 1>>, <<1, 1>>, <<2, 1>> >>

\* C13: isStuck is FALSE on fewer than 6 recent positions; on 6 or more it is TRUE
\* exactly when tick - lastImprovedTick >= 18, or the last four positions are
\* A,B,A,B, or the last six hold at most 2 distinct cells.  It is TRUE on
\* (1,1),(2,1),(1,1),(2,1),(1,1),(2,1) also when lastImprovedTick is the tick.
\* The call changes nothing of the model.
C13_IsStuckExact ==
    /\ [](last.op = "isStuck" =>
            LET r == Live.recent
                n == Len(r)
                lastSix == {r[k] : k \in {j \in 1..n : j > n - 6}}
            IN  /\ last.result =
                      (/\ n >= 6
                       /\ \/ env.tick - env.lastImprovedTick >= 18
                          \/ r[n] = r[n - 2] /\ r[n - 1] = r[n - 3]
                          \/ Cardinality(lastSix) <= 2)
                /\ r = Pacing => last.result)
    /\ [][last'.op = "isStuck" => (store' = store /\ env' = env)]_vars

\* C13 happens: isStuck has returned TRUE on the A-B-A-B example at a tick on which
\* the best distance improved
C13_Witness ==
    /\ last.op = "isStuck"
    /\ last.result
    /\ Live.recent = Pacing
    /\ env.lastImprovedTick = env.tick

\* the candidate cell of the last unseenAroundFrom call is at least r cells from
\* every border
Interior(r) ==
    /\ last.pos.x >= r /\ last.pos.x <= Live.width - 1 - r
    /\ last.pos.y >= r /\ last.pos.y <= Live.height - 1 - r

\* C14: unseenAroundFrom returns the number of in-bounds cells (x,y) with
\* |x - cx| <= obsRadius and |y - cy| <= obsRadius that are not seen, for every
\* candidate cell and seen Set; on an all-unseen grid, for a candidate at least
\* obsRadius cells from every border, that is (2*obsRadius+1)^2, 49 for radius 3.
\* The call changes nothing of the model.
C14_ScoreCountsUnseen ==
    /\ [](last.op = "score" =>
            LET r == cfg.obsRadius
                square == ((last.pos.x - r)..(last.pos.x + r))
                             \X ((last.pos.y - r)..(last.pos.y + r))
                inside == {k \in square : /\ k[1] >= 0 /\ k[1] < Live.width
                                          /\ k[2] >= 0 /\ k[2] < Live.height}
            IN  /\ last.result = Cardinality(inside \ Live.seen)
                /\ (Live.seen = {} /\ Interior(r))
                      => last.result = (2 * r + 1) * (2 * r + 1)
                /\ (Live.seen = {} /\ Interior(r) /\ r = 3) => last.result = 49)
    /\ [][last'.op = "score" => (store' = store /\ env' = env)]_vars

\* C14 happens: on an all-unseen grid the call has returned 49 for radius 3 and a
\* candidate three cells from every border
C14_Witness ==
    /\ last.op = "score"
    /\ cfg.obsRadius = 3
    /\ Live.seen = {}
    /\ Interior(3)
    /\ last.result = 49

\* C15: pickAction leaves the environment it is given, and every object of it,
\* unchanged, in its fallback and in its rollouts however many of them run; the
\* live model changes only when App.step then applies stepEnvironment once, with
\* the action pickAction returned.
C15_PickActionLeavesModel ==
    [][/\ (plan.pc \in {"idle", "while", "for", "select"} /\ plan'.pc # "idle")
             => (store' = store /\ env' = env)
       /\ plan.pc = "decided"
             => /\ plan'.pc = "idle"
                /\ env'.tick = env.tick + 1
                /\ Model(store', env') \in
                      {Model(m.store, m.e) :
                          m \in stepEnvironment(store, env, cfg, DirNamed(plan.action))}]_vars

\* C15 happens: pickAction has returned in Monte-Carlo mode after more rollouts
\* than one pass over the directions
C15_Witness ==
    /\ plan.pc = "decided"
    /\ plan.mode = "mc"
    /\ plan.iters > 4
    /\ \A i \in 1..4 : plan.scores[i].n > 0

\* the agent has a neighbouring cell that is inside the grid and not an obstacle
HasFreeNeighbour ==
    \E d \in DirSet :
        ~isBlocked(store, env, Live.agent.x + d.dx, Live.agent.y + d.dy)

\* C16: with partial observability, no slip, static obstacles and no adversary,
\* from every reachable non-terminal state in which the agent has a free
\* neighbouring cell, pickAction followed by stepEnvironment, repeated, eventually
\* moves the agent to another cell.  Stated for the states in which the agent has
\* stood on one cell during the last six recent positions and pickAction decides by
\* its fallback; the agent has moved when the last two recent positions differ.
C16_AgentKeepsMoving ==
    [](( /\ plan.pc = "idle"
         /\ ~env.done
         /\ HasFreeNeighbour
         /\ Len(Live.recent) >= 6
         /\ Cardinality(Range(Tail6(Live.recent))) = 1
         /\ FallbackTaken )
          => <>( /\ last.op = "step"
                 /\ Live.recent[Len(Live.recent)] # Live.recent[Len(Live.recent) - 1] ))

\* C17: every advance on a non-terminal model adds to reward exactly the step
\* cost -0.05, plus 10 if the agent's cell after the move is the goal, plus -5 if
\* the adversary's cell after its move is the agent's cell (hundredths).
C17_RewardDelta ==
    [][~env.done =>
          env'.reward - env.reward =
              -5
              + (IF store'.agent[env'.agent] = store'.goal[env'.goal] THEN 1000 ELSE 0)
              + (IF /\ env'.adversary # NoRef
                    /\ store'.adversary[env'.adversary] = store'.agent[env'.agent]
                 THEN -500 ELSE 0)]_vars

\* C17 happens: an advance has ended with the adversary on the agent's cell and the
\* penalty is in the reward
C17_Witness ==
    /\ last.op = "advance"
    /\ ~last.wasDone
    /\ Live.adversary = <<Live.agent>>
    /\ env.reward <= CollisionPenalty + StepCost

\* C18: after an advance on a non-terminal model done is TRUE exactly when the mode
\* is episodic and the agent's cell is the goal; without episodic mode done is FALSE
\* in every reachable state, also while the agent stands on the goal.
C18_TerminalIffEpisodicGoal ==
    /\ [](~cfg.episodic => ~env.done)
    /\ [][~env.done =>
             (env'.done <=> (cfg.episodic /\ store'.agent[env'.agent] = store'.goal[env'.goal]))]_vars

\* C18 happens: without episodic mode an advance has left the agent on the goal and
\* the model is not terminal
C18_Witness ==
    /\ last.op = "advance"
    /\ ~cfg.episodic
    /\ env.tick > 0
    /\ Live.agent = Live.goal
    /\ ~env.done

\* C19: on a tick of moving obstacles every obstacle either stays on its cell or
\* is on a neighbouring cell that is inside the grid, was no obstacle before the
\* tick and is not the cell of the agent, the goal or the adversary: a move onto
\* any other cell is rejected and the obstacle is still on its own cell.
C19_RejectedObstacleStays ==
    [][(~env.done /\ cfg.dynamicObstacles /\ env.tick % 3 = 0) =>
          \A o \in store.obstacles[env.obstacles] :
              \/ o \in store'.obstacles[env'.obstacles]
              \/ \E d \in DirSet :
                    LET t == <<o[1] + d.dx, o[2] + d.dy>>
                    IN  /\ t \in Cells(env.width, env.height)
                        /\ t \notin store.obstacles[env.obstacles]
                        /\ t # keyOf(store'.agent[env'.agent])
                        /\ t # keyOf(store.goal[env.goal])
                        /\ (env.adversary # NoRef
                               => t # keyOf(store.adversary[env.adversary]))
                        /\ t \in store'.obstacles[env'.obstacles]]_vars

\* C20: advance leaves the obstacle set as it is unless the obstacles are dynamic
\* and the tick before the call is a multiple of 3; without dynamic obstacles the
\* set never changes.
C20_ObstaclesFrame ==
    [][~(cfg.dynamicObstacles /\ env.tick % 3 = 0)
          => store'.obstacles[env'.obstacles] = store.obstacles[env.obstacles]]_vars

\* C20 happens: with dynamic obstacles the advances at ticks 1 and 2 have run on a
\* grid that holds an obstacle
C20_Witness ==
    /\ last.op = "advance"
    /\ ~last.wasDone
    /\ cfg.dynamicObstacles
    /\ env.tick = 3
    /\ Live.obstacles # {}

\* the directions in which the adversary has an in-bounds neighbouring cell that
\* is no obstacle when it moves (after the obstacles of this advance have moved)
AdvNeighbours ==
    LET adv == store.adversary[env.adversary]
    IN  {i \in 1..4 :
           /\ <<adv.x + DIRS[i].dx, adv.y + DIRS[i].dy>> \in Cells(env.width, env.height)
           /\ <<adv.x + DIRS[i].dx, adv.y + DIRS[i].dy>> \notin store'.obstacles[env'.obstacles]}

\* C21: a chaser adversary moves to the in-bounds unobstructed neighbouring cell
\* of least Manhattan distance to the agent's cell after the agent's move, the first
\* in the order UP, RIGHT, DOWN, LEFT among equals, and stays on its own cell only
\* when it has no in-bounds unobstructed neighbouring cell.
C21_ChaserNearestNeighbour ==
    [][(~env.done /\ env.adversary # NoRef /\ cfg.adversaryType = "chaser") =>
          LET adv == store.adversary[env.adversary]
              agent == store'.agent[env'.agent]
              cell(i) == [x |-> adv.x + DIRS[i].dx, y |-> adv.y + DIRS[i].dy]
              best == CHOOSE i \in AdvNeighbours :
                         /\ \A k \in AdvNeighbours :
                               manhattan(cell(i), agent) <= manhattan(cell(k), agent)
                         /\ \A k \in AdvNeighbours :
                               k < i => manhattan(cell(k), agent) > manhattan(cell(i), agent)
          IN  store'.adversary[env'.adversary] =
                 IF AdvNeighbours = {} THEN adv ELSE cell(best)]_vars

\* C22: a random adversary ends an advance on one of its in-bounds unobstructed
\* neighbouring cells, at Manhattan distance 1 from the cell it left, whenever it
\* has one, and stays on its own cell only when it has none.
C22_RandomTakesNeighbour ==
    [][(~env.done /\ env.adversary # NoRef /\ cfg.adversaryType = "random") =>
          LET adv == store.adversary[env.adversary]
              to == store'.adversary[env'.adversary]
          IN  IF AdvNeighbours = {}
              THEN to = adv
              ELSE \E i \in AdvNeighbours :
                      to = [x |-> adv.x + DIRS[i].dx, y |-> adv.y + DIRS[i].dy]]_vars

\* the agent's cell after an advance that executes direction d: the cell one step
\* in direction d when it is in-bounds and no obstacle, the agent's own cell otherwise
Executed(d) ==
    LET agent == store.agent[env.agent]
        t == <<agent.x + d.dx, agent.y + d.dy>>
    IN  IF t \in Cells(env.width, env.height) /\ t \notin store.obstacles[env.obstacles]
        THEN t
        ELSE <<agent.x, agent.y>>

C24_RevealWindow ==
    [][(~env.done /\ cfg.partialObs) =>
          LET agent == store'.agent[env'.agent]
              r == cfg.obsRadius
              square == {k \in (0..(env.width - 1)) \X (0..(env.height - 1)) :
                            /\ agent.x - r <= k[1] /\ k[1] <= agent.x + r
                            /\ agent.y - r <= k[2] /\ k[2] <= agent.y + r}
          IN  /\ store'.seen[env'.seen] \ store.seen[env.seen] \subseteq square
              /\ cfg.sensorNoise = 0 => square \subseteq store'.seen[env'.seen]
              /\ <<agent.x, agent.y>> \in square]_vars

\* C24 happens: without sensor noise an advance has moved the agent and revealed
\* its square, which has a corner cell and is not the whole grid
C24_Witness ==
    /\ last.op = "advance"
    /\ ~last.wasDone
    /\ cfg.partialObs
    /\ cfg.sensorNoise = 0
    /\ Len(Live.recent) >= 2
    /\ Live.recent[Len(Live.recent) - 1] # Live.recent[Len(Live.recent)]
    /\ <<Live.agent.x + 1, Live.agent.y + 1>> \in Live.seen
    /\ Cardinality(Live.seen) < env.width * env.height

\* C25: recent always holds between 1 and 16 entries and ends with the agent's
\* cell; an advance on a non-terminal model appends the agent's cell after the move
\* and, when that makes 17 entries, removes exactly the oldest.
C25_RecentWindow ==
    /\ [](/\ Len(store.recent[env.recent]) >= 1
          /\ Len(store.recent[env.recent]) <= 16
          /\ store.recent[env.recent][Len(store.recent[env.recent])]
                = <<store.agent[env.agent].x, store.agent[env.agent].y>>)
    /\ [][~env.done =>
             LET old == store.recent[env.recent]
                 cell == <<store'.agent[env'.agent].x, store'.agent[env'.agent].y>>
             IN  store'.recent[env'.recent] =
                    IF Len(old) = 16
                    THEN [k \in 1..16 |-> IF k < 16 THEN old[k + 1] ELSE cell]
                    ELSE [k \in 1..(Len(old) + 1) |-> IF k <= Len(old) THEN old[k] ELSE cell]]_vars

\* C25 happens: the second advance on a full Array has run, and the agent has
\* been on both cells of its column within the 16 positions kept
C25_Witness ==
    /\ last.op = "advance"
    /\ env.tick = RecentCap + 1
    /\ Len(Live.recent) = RecentCap
    /\ Cardinality(Range(Live.recent)) = 2
    /\ Live.recent[1] # Live.recent[2]

\* C26: at every point of the rollout loop and when it has exited, the
\* sample counts satisfy n(UP) >= n(RIGHT) >= n(DOWN) >= n(LEFT) >= n(UP) - 1, and
\* iters is the sum of the four counts.
C26_RoundRobinCounts ==
    plan.pc # "idle" =>
        /\ plan.scores[1].n >= plan.scores[2].n
        /\ plan.scores[2].n >= plan.scores[3].n
        /\ plan.scores[3].n >= plan.scores[4].n
        /\ plan.scores[4].n >= plan.scores[1].n - 1
        /\ plan.iters = plan.scores[1].n + plan.scores[2].n
                           + plan.scores[3].n + plan.scores[4].n

\* C26 happens: the loop has exited at a deadline that fell in its second pass,
\* after the rollout of UP
C26_Witness ==
    /\ plan.pc = "decided"
    /\ plan.mode = "mc"
    /\ plan.scores[1].n = 2
    /\ plan.scores[2].n = 1
    /\ plan.scores[4].n = 1

\* C27: while Play is active each loop step is computed from the environment
\* the previous loop step installed: after k loop steps on a non-terminal episode
\* the tick of the installed environment is k more than when Play was pressed.
C27_PlayTickGrows ==
    (twin # NoEnv /\ ~twin.done) => twin.tick = env.tick + Len(log)

\* C28: in episodic mode without adversary every state reached from makeEnv by
\* advances has reward = -0.05 * tick, plus 10 exactly when the model is terminal
\* (hundredths): the goal bonus is paid once, on the tick that sets done.
C28_RewardClosedForm ==
    (cfg.episodic /\ env.adversary = NoRef) =>
        env.reward = -5 * env.tick + (IF env.done THEN 1000 ELSE 0)

\* C28 happens: an episodic run without adversary has reached the goal after
\* steps off the goal and has been advanced again while terminal
C28_Witness ==
    /\ cfg.episodic
    /\ env.adversary = NoRef
    /\ last.op = "advance"
    /\ last.wasDone
    /\ env.done
    /\ env.tick >= 2
    /\ env.reward = GoalBonus + env.tick * StepCost

====
